---- MODULE Spec2Model ----
(***************************************************************************)
(* HelpFit backend (backEnd.py): the SQLite tables students / attendance,  *)
(* the four backend operations and the profile computation of              *)
(* get_student_full.                                                       *)
(*                                                                         *)
(* Conventions                                                             *)
(*  - a calendar date is the tuple <<year, month, day>>; SQL NULL / NaT is *)
(*    the empty tuple.  Dates are stored as ISO text and parsed back by    *)
(*    pandas; only valid ISO dates are entered, so the text is not         *)
(*    modelled separately.                                                 *)
(*  - a student id "STU<unix seconds>" is the clock reading                *)
(*    [date, sec] it was generated from.                                   *)
(*  - a percentage with two decimals is an integer number of hundredths    *)
(*    (125.0 is 12500) tagged with its IEEE class, because a float         *)
(*    division by a numpy zero yields inf / nan and not a number.          *)
(*  - pass-through columns (nome, telefone, sexo, comorbidade,             *)
(*    valor_plano) take no part in any computation and are left out.       *)
(***************************************************************************)
EXTENDS Integers, Sequences, FiniteSets, Bags, TLC

VARIABLES students, attendance, clock, solver, op, ret

vars == <<students, attendance, clock, solver, op, ret>>

(***************************************************************************)
(* Bounds and input sets                                                   *)
(***************************************************************************)
MaxRows == 3
MaxQuota == 2

NULL == <<>>

CPFs == {"111"}

\* the readings the system clock passes through, in order: two seconds of
\* one day, then two later days
Timeline == << [date |-> <<2023, 5, 1>>, sec |-> 0],
              [date |-> <<2023, 5, 1>>, sec |-> 1],
              [date |-> <<2024, 6, 14>>, sec |-> 0],
              [date |-> <<2024, 6, 15>>, sec |-> 0] >>

EnrollDates == { <<2023, 3, 15>>, <<2024, 6, 15>> }
BirthDates == { NULL, <<2000, 6, 15>> }
AttDates == { <<2023, 5, 1>>, <<2024, 6, 14>> }
Quotas == {-1} \cup 0..MaxQuota

\* round(prob * 100, 2) in hundredths, for the probabilities a fitted
\* classifier can answer with
ProbGrid == {0, 3716, 10000}

ClockValues == {Timeline[i] : i \in 1..Len(Timeline)}

(***************************************************************************)
(* Values                                                                  *)
(***************************************************************************)
Year(d) == d[1]
Month(d) == d[2]
Day(d) == d[3]

\* pandas Timestamp.to_period('M')
to_period(d) == <<Year(d), Month(d)>>

\* date.today()
Today(clk) == clk.date

\* f"STU{int(datetime.now().timestamp())}"
NewStudentId(clk) == clk

Finite(h) == [cls |-> "finite", hundredths |-> h]
NonFinite(c) == [cls |-> c, hundredths |-> 0]

NoneRet == [kind |-> "None"]
Raise(e) == [kind |-> "raise", exc |-> e]
BoolRet(b) == [kind |-> "bool", value |-> b]

(***************************************************************************)
(* get_student_full: the profile computation                               *)
(***************************************************************************)
\* a variant that reads the attendance of every student
StudentRows_allStudents(att, sid) == DOMAIN att

\* SELECT date, present FROM attendance WHERE student_id = ?
StudentRows(att, sid) == {r \in DOMAIN att : r.student_id = sid}

RECURSIVE SumPresent(_, _)
\* ['present'].sum() over the rows S, each counted with its multiplicity
SumPresent(att, S) ==
    IF S = {} THEN 0
    ELSE LET r == CHOOSE x \in S : TRUE
         IN att[r] * r.present + SumPresent(att, S \ {r})

RECURSIVE CountRows(_, _)
\* ('present', 'count') over the rows S
CountRows(att, S) ==
    IF S = {} THEN 0
    ELSE LET r == CHOOSE x \in S : TRUE
         IN att[r] + CountRows(att, S \ {r})

\* a variant that compares the month only
Idade_monthOnly(today, nasc) ==
    IF nasc # NULL
    THEN << Year(today) - Year(nasc)
            - (IF Month(today) < Month(nasc) THEN 1 ELSE 0) >>
    ELSE NULL

\* idade
Idade(today, nasc) ==
    IF nasc # NULL
    THEN << Year(today) - Year(nasc)
            - (IF Month(today) < Month(nasc)
                  \/ (Month(today) = Month(nasc) /\ Day(today) < Day(nasc))
               THEN 1 ELSE 0) >>
    ELSE NULL

\* a variant that never goes below zero
Months_clamped(today, mat) ==
    LET m == (Year(today) - Year(mat)) * 12 + Month(today) - Month(mat)
    IN IF m < 0 THEN 0 ELSE m

\* tempo de matricula em meses
Months(today, mat) ==
    (Year(today) - Year(mat)) * 12 + Month(today) - Month(mat)

\* a variant that counts each attended day once
DiasPresentes_distinctDays(att, sid, today) ==
    Cardinality({r \in StudentRows(att, sid) :
                    to_period(r.date) = to_period(today) /\ r.present = 1})

\* df_current['present'].sum()
DiasPresentes(att, sid, today) ==
    SumPresent(att, {r \in StudentRows(att, sid) :
                        to_period(r.date) = to_period(today)})

\* student.dias_contratados - dias_presentes
DiasFaltas(dc, presentes) == dc - presentes

\* a variant whose threshold is inclusive
Churn_nonStrict(faltas, dc) == IF 2 * faltas >= dc THEN 1 ELSE 0

\* churn = 1 if faltas > half of the contracted days
Churn(faltas, dc) == IF 2 * faltas > dc THEN 1 ELSE 0

\* attendance_df.groupby('mes').agg(...) with the faltas and churn columns
Agg(att, sid, dc) ==
    LET rows == StudentRows(att, sid)
        meses == {to_period(r.date) : r \in rows}
        grp(m) == {r \in rows : to_period(r.date) = m}
    IN { [mes |-> m,
          presentes |-> SumPresent(att, grp(m)),
          total |-> CountRows(att, grp(m)),
          faltas |-> CountRows(att, grp(m)) - SumPresent(att, grp(m)),
          churn |-> Churn(CountRows(att, grp(m)) - SumPresent(att, grp(m)), dc)]
         : m \in meses }

\* round(x, 2) of the quotient 100 * num / den (den # 0), in hundredths,
\* ties to even
Round2(num, den) ==
    LET n == IF den < 0 THEN 0 - 10000 * num ELSE 10000 * num
        d == IF den < 0 THEN 0 - den ELSE den
        q == n \div d
        r == n - q * d
    IN IF 2 * r < d THEN q
       ELSE IF 2 * r > d THEN q + 1
       ELSE IF q % 2 = 0 THEN q ELSE q + 1

\* a variant that caps the ratio at 100 percent
RatioFallback_clamped(faltas, dc) ==
    IF dc = 0
    THEN IF faltas > 0 THEN NonFinite("inf")
         ELSE IF faltas < 0 THEN NonFinite("-inf")
         ELSE NonFinite("nan")
    ELSE Finite(IF Round2(faltas, dc) > 10000 THEN 10000
                ELSE Round2(faltas, dc))

\* round((dias_faltas / student.dias_contratados) * 100, 2); the divisor is
\* a numpy int64, so a zero divisor gives inf / nan instead of raising
RatioFallback(faltas, dc) ==
    IF dc = 0
    THEN IF faltas > 0 THEN NonFinite("inf")
         ELSE IF faltas < 0 THEN NonFinite("-inf")
         ELSE NonFinite("nan")
    ELSE Finite(Round2(faltas, dc))

\* model.fit(X, y): the solver refuses a training set with a single class
FitRaises(agg) == Cardinality({a.churn : a \in agg}) < 2

\* the training branch is taken when there are at least two monthly rows
UsesModel(agg) == Cardinality(agg) >= 2

\* a variant that answers with the ratio whether or not a model was fitted
ChanceEvasao_ratioOnly(agg, presentes, faltas, dc, slv) ==
    RatioFallback(faltas, dc)

\* chance_evasao; slv is what round(predict_proba(...)[0][1] * 100, 2)
\* comes to for the fitted model
ChanceEvasao(agg, presentes, faltas, dc, slv) ==
    IF UsesModel(agg)
    THEN Finite(slv)
    ELSE RatioFallback(faltas, dc)

\* a variant that halves the quota in integer arithmetic
Status_truncatedHalf(presentes, dc) ==
    IF presentes >= dc \div 2 THEN "Ativo" ELSE "Inativo"

\* status de matricula baseado em 50% de presenca
Status(presentes, dc) == IF 2 * presentes >= dc THEN "Ativo" ELSE "Inativo"

\* the dict get_student_full builds for the row student, or the exception
\* the fit raises
Profile(student, cpf, att, today, slv) ==
    LET dc == student.dias_contratados
        presentes == DiasPresentes(att, student.id, today)
        faltas == DiasFaltas(dc, presentes)
        agg == Agg(att, student.id, dc)
    IN IF UsesModel(agg) /\ FitRaises(agg)
       THEN Raise("ValueError")
       ELSE [kind |-> "profile",
             id |-> student.id,
             cpf |-> cpf,
             data_matricula |-> student.data_matricula,
             data_nascimento |-> student.data_nascimento,
             idade |-> Idade(today, student.data_nascimento),
             dias_contratados |-> dc,
             dias_presentes |-> presentes,
             dias_faltas |-> faltas,
             status_matricula |-> Status(presentes, dc),
             tempo_matricula_meses |-> Months(today, student.data_matricula),
             chance_evasao_percent |->
                 ChanceEvasao(agg, presentes, faltas, dc, slv)]

\* a variant that answers an unknown key with a zero-filled profile
GetStudentFull_zeroed(st, att, today, slv, cpf) ==
    IF cpf \notin DOMAIN st
    THEN Profile([id |-> [date |-> today, sec |-> 0],
                  data_matricula |-> today, data_nascimento |-> NULL,
                  dias_contratados |-> 0], cpf, att, today, slv)
    ELSE Profile(st[cpf], cpf, att, today, slv)

\* the return value of get_student_full(cpf) on tables st / att
GetStudentFull(st, att, today, slv, cpf) ==
    IF cpf \notin DOMAIN st
    THEN NoneRet
    ELSE Profile(st[cpf], cpf, att, today, slv)

(***************************************************************************)
(* Operations                                                              *)
(***************************************************************************)
\* the call just made; again: it is a lookup that repeats the lookup before
\* it (same key, same clock date) with no other operation in between
Call(name, cpf) ==
    [name |-> name, cpf |-> cpf, today |-> Today(clock),
     again |-> (name = "get_student_full" /\ op.name = name
                /\ op.cpf = cpf /\ op.today = Today(clock))]

StudentIds(st) == {st[c].id : c \in DOMAIN st}

\* a variant without the cascade
WithoutRowsOf_noCascade(att, sid) == att

\* ON DELETE CASCADE: the rows that survive the deletion of student sid
WithoutRowsOf(att, sid) ==
    [r \in {x \in DOMAIN att : x.student_id # sid} |-> att[r]]

Init ==
    /\ students = << >>
    /\ attendance = EmptyBag
    /\ clock = Timeline[1]
    /\ solver \in ProbGrid
    /\ op = [name |-> "init", cpf |-> "", today |-> Today(Timeline[1]),
             again |-> FALSE]
    /\ ret = NoneRet

\* add_student: INSERT (PRIMARY KEY id, UNIQUE cpf), then get_student_full
AddStudent(cpf, mat, nasc, dc) ==
    LET sid == NewStudentId(clock)
        row == [id |-> sid, data_matricula |-> mat,
                data_nascimento |-> nasc, dias_contratados |-> dc]
        inserted == [c \in DOMAIN students \cup {cpf} |->
                        IF c = cpf THEN row ELSE students[c]]
    IN /\ op' = Call("add_student", cpf)
       /\ IF cpf \in DOMAIN students \/ sid \in StudentIds(students)
          THEN /\ ret' = Raise("IntegrityError")
               /\ UNCHANGED students
          ELSE /\ students' = inserted
               /\ ret' = GetStudentFull(inserted, attendance, Today(clock),
                                        solver, cpf)
       /\ UNCHANGED <<attendance, clock, solver>>

\* a variant that does not enforce the foreign key
RecordAttendance_noForeignKey(sid, d, present) ==
    /\ BagCardinality(attendance) < MaxRows
    /\ op' = Call("record_attendance", "")
    /\ attendance' = attendance (+) SetToBag(
           {[student_id |-> sid, date |-> d,
             present |-> IF present THEN 1 ELSE 0]})
    /\ ret' = NoneRet
    /\ UNCHANGED <<students, clock, solver>>

\* record_attendance: INSERT with the foreign key enforced
RecordAttendance(sid, d, present) ==
    /\ BagCardinality(attendance) < MaxRows
    /\ op' = Call("record_attendance", "")
    /\ IF sid \in StudentIds(students)
       THEN /\ attendance' = attendance (+) SetToBag(
                   {[student_id |-> sid, date |-> d,
                     present |-> IF present THEN 1 ELSE 0]})
            /\ ret' = NoneRet
       ELSE /\ ret' = Raise("IntegrityError")
            /\ UNCHANGED attendance
    /\ UNCHANGED <<students, clock, solver>>

\* a variant that books a visit on every lookup
GetStudentFullOp_booksVisit(cpf) ==
    /\ op' = Call("get_student_full", cpf)
    /\ ret' = GetStudentFull(students, attendance, Today(clock), solver, cpf)
    /\ IF cpf \in DOMAIN students /\ BagCardinality(attendance) < MaxRows
       THEN attendance' = attendance (+) SetToBag(
                {[student_id |-> students[cpf].id, date |-> Today(clock),
                  present |-> 1]})
       ELSE UNCHANGED attendance
    /\ UNCHANGED <<students, clock, solver>>

\* get_student_full as an operation: reads only
GetStudentFullOp(cpf) ==
    /\ op' = Call("get_student_full", cpf)
    /\ ret' = GetStudentFull(students, attendance, Today(clock), solver, cpf)
    /\ UNCHANGED <<students, attendance, clock, solver>>

\* delete_student: DELETE FROM students WHERE cpf = ?, cascading
DeleteStudent(cpf) ==
    /\ op' = Call("delete_student", cpf)
    /\ IF cpf \in DOMAIN students
       THEN /\ students' = [c \in DOMAIN students \ {cpf} |-> students[c]]
            /\ attendance' = WithoutRowsOf(attendance, students[cpf].id)
            /\ ret' = BoolRet(TRUE)
       ELSE /\ ret' = BoolRet(FALSE)
            /\ UNCHANGED <<students, attendance>>
    /\ UNCHANGED <<clock, solver>>

\* the system clock moves on to its next reading
Tick ==
    /\ \E i \in 1..(Len(Timeline) - 1) :
          /\ clock = Timeline[i]
          /\ clock' = Timeline[i + 1]
    /\ UNCHANGED <<students, attendance, solver, op, ret>>

Next ==
    \/ \E cpf \in CPFs, mat \in EnrollDates, nasc \in BirthDates, dc \in Quotas :
          AddStudent(cpf, mat, nasc, dc)
    \/ \E sid \in ClockValues, d \in AttDates, present \in BOOLEAN :
          RecordAttendance(sid, d, present)
    \/ \E cpf \in CPFs : GetStudentFullOp(cpf)
    \/ \E cpf \in CPFs : DeleteStudent(cpf)
    \/ Tick

Spec == Init /\ [][Next]_vars

\* the same operations over two CPFs and a single enrolment form, for the
\* properties of the tables across students
RepoCPFs == {"111", "222"}
RepoEnrollDates == { <<2023, 3, 15>> }
RepoBirthDates == { NULL }
RepoQuotas == {2}

NextRepo ==
    \/ \E cpf \in RepoCPFs, mat \in RepoEnrollDates, nasc \in RepoBirthDates,
          dc \in RepoQuotas :
          AddStudent(cpf, mat, nasc, dc)
    \/ \E sid \in ClockValues, d \in AttDates, present \in BOOLEAN :
          RecordAttendance(sid, d, present)
    \/ \E cpf \in RepoCPFs : GetStudentFullOp(cpf)
    \/ \E cpf \in RepoCPFs : DeleteStudent(cpf)
    \/ Tick

SpecRepo == Init /\ [][NextRepo]_vars

(***************************************************************************)
(* Properties                                                              *)
(***************************************************************************)
\* the last operation ran get_student_full to its end for a stored student
\* (directly, or as the last statement of add_student); the tables are
\* still the ones it read and op.today is the date it saw
Looked ==
    /\ op.cpf \in DOMAIN students
    /\ \/ op.name = "get_student_full"
       \/ op.name = "add_student" /\ ret # Raise("IntegrityError")

\* the calendar months in which the looked-up student has attendance rows
MonthsOnFile ==
    {to_period(r.date) : r \in {x \in DOMAIN attendance :
                                   x.student_id = students[op.cpf].id}}

\* the churn labels among the looked-up student's monthly aggregates
LabelsOnFile ==
    {a.churn : a \in Agg(attendance, students[op.cpf].id,
                         students[op.cpf].dias_contratados)}

Abs(x) == IF x < 0 THEN 0 - x ELSE x

\* h hundredths is the two-decimal rounding of 100 * num / den
IsRounded(h, num, den) == 2 * Abs(h * den - 10000 * num) <= Abs(den)

\* C1: with fewer than two monthly aggregates the percent is
\* round(100 * dias_faltas / dias_contratados, 2) of the current-period
\* counts, with no clamp: it is the nearest hundredth of the quotient,
\* whatever its size, and where the quota is zero it is the non-finite
\* value of the float division.
C1_RatioFallback ==
    (Looked /\ Cardinality(MonthsOnFile) < 2) =>
        /\ ret.kind = "profile"
        /\ ret.dias_faltas = ret.dias_contratados - ret.dias_presentes
        /\ IF ret.dias_contratados # 0
           THEN /\ ret.chance_evasao_percent.cls = "finite"
                /\ IsRounded(ret.chance_evasao_percent.hundredths,
                             ret.dias_faltas, ret.dias_contratados)
           ELSE ret.chance_evasao_percent.cls # "finite"

\* the fallback has answered with more than 100 percent
C1_Witness ==
    /\ Looked /\ Cardinality(MonthsOnFile) < 2
    /\ ret.kind = "profile"
    /\ ret.chance_evasao_percent.cls = "finite"
    /\ ret.chance_evasao_percent.hundredths > 10000

\* C2: get_student_full with a CPF that matches no row of students returns
\* None (no exception, no zero-filled profile) and leaves both tables as
\* they were.
C2_NotFound ==
    [][\A cpf \in CPFs :
          (GetStudentFullOp(cpf) /\ cpf \notin DOMAIN students) =>
              /\ ret' = NoneRet
              /\ students' = students
              /\ attendance' = attendance]_vars

\* a lookup of a CPF nobody holds has returned
C2_Witness ==
    /\ op.name = "get_student_full"
    /\ op.cpf \notin DOMAIN students
    /\ ret = NoneRet

\* C3: with two or more monthly aggregates that all carry the same churn
\* label, get_student_full does not raise and returns the ratio-fallback
\* percent.
C3_SingleClassFallsBack ==
    (Looked /\ Cardinality(MonthsOnFile) >= 2
            /\ Cardinality(LabelsOnFile) = 1) =>
        /\ ret.kind = "profile"
        /\ ret.chance_evasao_percent =
              RatioFallback(ret.dias_faltas, ret.dias_contratados)

\* C4: with a zero or negative dias_contratados the returned percent is 0.0
\* and nothing is divided by the quota.
C4_InvalidQuotaIsZero ==
    (Looked /\ students[op.cpf].dias_contratados <= 0) =>
        /\ ret.kind = "profile"
        /\ ret.chance_evasao_percent = Finite(0)

\* C5: with two or more monthly aggregates that carry both churn labels the
\* returned percent is a number in [0, 100], whatever the current-period
\* counts are.
C5_ModelPercentInRange ==
    (Looked /\ Cardinality(MonthsOnFile) >= 2
            /\ Cardinality(LabelsOnFile) = 2) =>
        /\ ret.kind = "profile"
        /\ ret.chance_evasao_percent.cls = "finite"
        /\ ret.chance_evasao_percent.hundredths \in 0..10000

\* a two-class history was looked up while the current-period counts put
\* the plain ratio outside [0, 100]
C5_Witness ==
    /\ Looked /\ Cardinality(MonthsOnFile) >= 2
    /\ Cardinality(LabelsOnFile) = 2
    /\ ret.kind = "profile"
    /\ \/ ret.dias_contratados = 0
       \/ ret.dias_faltas < 0
       \/ ret.dias_faltas > ret.dias_contratados

\* C6: a lookup that repeats the lookup before it (same key, same clock
\* date, no add / record / delete in between) returns the same value, and a
\* lookup changes no row of students or attendance.
C6_Idempotent ==
    [][\A cpf \in CPFs :
          GetStudentFullOp(cpf) =>
              /\ students' = students
              /\ attendance' = attendance
              /\ op'.again => ret' = ret]_vars

\* a profile has been returned by the second of two lookups in a row
C6_Witness ==
    /\ op.name = "get_student_full"
    /\ op.again
    /\ ret.kind = "profile"

\* C7: for a fixed repository state the returned value does not depend on
\* what the system clock reads: a lookup that follows a lookup of the same
\* key, with no write in between, returns the same value.
C7_ClockIndependent ==
    [][\A cpf \in CPFs :
          (GetStudentFullOp(cpf) /\ op.name = "get_student_full"
                                 /\ op.cpf = cpf) =>
              ret' = ret]_vars

\* C8: status_matricula is "Ativo" exactly when dias_presentes is at least
\* the exact half of dias_contratados, "Inativo" otherwise.
C8_StatusThreshold ==
    (Looked /\ ret.kind = "profile") =>
        /\ ret.status_matricula \in {"Ativo", "Inativo"}
        /\ ret.status_matricula = "Ativo" <=>
              2 * ret.dias_presentes >= ret.dias_contratados

\* a student sitting exactly on the half of a positive quota is active
C8_Witness ==
    /\ Looked /\ ret.kind = "profile"
    /\ ret.dias_contratados > 0
    /\ 2 * ret.dias_presentes = ret.dias_contratados
    /\ ret.status_matricula = "Ativo"

\* C9: idade is the year difference, less one while this year's birthday
\* (month, day) is still ahead; it is null without a birth date.  Born
\* 2000-06-15: 23 on 2024-06-14, 24 on 2024-06-15.
C9_Age ==
    (Looked /\ ret.kind = "profile") =>
        LET b == ret.data_nascimento
            t == op.today
        IN /\ b = NULL => ret.idade = NULL
           /\ b # NULL =>
                 /\ 100 * Month(t) + Day(t) < 100 * Month(b) + Day(b)
                       => ret.idade = << Year(t) - Year(b) - 1 >>
                 /\ 100 * Month(t) + Day(t) >= 100 * Month(b) + Day(b)
                       => ret.idade = << Year(t) - Year(b) >>
           /\ (b = <<2000, 6, 15>> /\ t = <<2024, 6, 14>>) => ret.idade = <<23>>
           /\ (b = <<2000, 6, 15>> /\ t = <<2024, 6, 15>>) => ret.idade = <<24>>

\* a profile computed on the eve of the birthday
C9_Witness ==
    /\ Looked /\ ret.kind = "profile"
    /\ ret.data_nascimento = <<2000, 6, 15>>
    /\ op.today = <<2024, 6, 14>>
    /\ ret.idade = <<23>>

\* C10: tempo_matricula_meses is 12 * (year difference) + (month
\* difference), the day of month ignored, and is negative (not 0) when the
\* enrollment month is later than the current one.  Enrolled 2023-03-15:
\* 2 on 2023-05-01.
C10_MonthsEnrolled ==
    (Looked /\ ret.kind = "profile") =>
        LET e == ret.data_matricula
            t == op.today
        IN /\ ret.tempo_matricula_meses =
                 (12 * Year(t) + Month(t)) - (12 * Year(e) + Month(e))
           /\ (e = <<2023, 3, 15>> /\ t = <<2023, 5, 1>>)
                 => ret.tempo_matricula_meses = 2
           /\ to_period(e) = to_period(t) => ret.tempo_matricula_meses = 0

\* a profile of a student whose enrollment lies in a later month
C10_Witness ==
    /\ Looked /\ ret.kind = "profile"
    /\ ret.tempo_matricula_meses < 0

\* the attendance rows of student sid dated in calendar month m, as a bag
RowsIn(sid, m) ==
    [r \in {x \in DOMAIN attendance :
               x.student_id = sid /\ to_period(x.date) = m} |-> attendance[r]]

\* those of them that mark a presence
PresentIn(sid, m) ==
    [r \in {x \in DOMAIN RowsIn(sid, m) : x.present = 1} |-> attendance[r]]

\* C11: dias_presentes is the number of present=true rows of the student
\* dated in the calendar month of today, same-day duplicates each counted,
\* and dias_faltas is dias_contratados - dias_presentes (so the two add up
\* to the quota and present=false rows do not enter dias_faltas).
C11_CurrentPeriodCounts ==
    (Looked /\ ret.kind = "profile") =>
        /\ ret.dias_presentes =
              BagCardinality(PresentIn(students[op.cpf].id, to_period(op.today)))
        /\ ret.dias_contratados = students[op.cpf].dias_contratados
        /\ ret.dias_faltas = ret.dias_contratados - ret.dias_presentes
        /\ ret.dias_presentes + ret.dias_faltas = ret.dias_contratados

\* a profile over a month holding two presences logged for the same day and
\* one logged absence
C11_Witness ==
    /\ Looked /\ ret.kind = "profile"
    /\ ret.dias_presentes = 2
    /\ \E r \in DOMAIN attendance :
          /\ r.present = 1 /\ attendance[r] = 2
          /\ to_period(r.date) = to_period(op.today)
    /\ \E r \in DOMAIN attendance :
          r.present = 0 /\ to_period(r.date) = to_period(op.today)

\* C12: the training aggregates of a student hold exactly one entry per
\* calendar month with at least one attendance row (the current month too);
\* in each, presentes counts the present=true rows, total all rows, faltas
\* is total - presentes, and churn is 1 exactly when faltas exceeds the
\* exact half of dias_contratados.
C12_Aggregates ==
    \A cpf \in DOMAIN students :
        LET sid == students[cpf].id
            dc == students[cpf].dias_contratados
            agg == Agg(attendance, sid, dc)
            meses == {to_period(r.date) :
                         r \in {x \in DOMAIN attendance : x.student_id = sid}}
        IN /\ {a.mes : a \in agg} = meses
           /\ Cardinality(agg) = Cardinality(meses)
           /\ \A a \in agg :
                 /\ a.presentes = BagCardinality(PresentIn(sid, a.mes))
                 /\ a.total = BagCardinality(RowsIn(sid, a.mes))
                 /\ a.total >= 1
                 /\ a.faltas = a.total - a.presentes
                 /\ a.churn \in {0, 1}
                 /\ a.churn = 1 <=> 2 * a.faltas > dc

\* a lookup whose aggregates include the current month, with absences
\* exactly at half of a positive quota (no churn), and another month
C12_Witness ==
    /\ Looked
    /\ LET agg == Agg(attendance, students[op.cpf].id,
                      students[op.cpf].dias_contratados)
       IN /\ Cardinality(agg) = 2
          /\ \E a \in agg :
                /\ a.mes = to_period(op.today)
                /\ students[op.cpf].dias_contratados > 0
                /\ 2 * a.faltas = students[op.cpf].dias_contratados
                /\ a.churn = 0

\* C13: for a stored student without any attendance row get_student_full
\* returns a profile with no monthly aggregate, dias_presentes = 0,
\* dias_faltas = dias_contratados and the ratio-fallback percent, which is
\* 100.0 for a positive quota.
C13_NoAttendance ==
    (Looked /\ RowsIn(students[op.cpf].id, to_period(op.today)) = EmptyBag
            /\ MonthsOnFile = {}) =>
        /\ ret.kind = "profile"
        /\ Agg(attendance, students[op.cpf].id,
               students[op.cpf].dias_contratados) = {}
        /\ ret.dias_presentes = 0
        /\ ret.dias_faltas = students[op.cpf].dias_contratados
        /\ ret.dias_contratados # 0 =>
              /\ ret.chance_evasao_percent.cls = "finite"
              /\ IsRounded(ret.chance_evasao_percent.hundredths,
                           ret.dias_faltas, ret.dias_contratados)
        /\ ret.dias_contratados > 0 => ret.chance_evasao_percent = Finite(10000)

\* a student with a positive quota and no rows was looked up while another
\* student had attendance on file
C13_Witness ==
    /\ Looked /\ op.name = "get_student_full"
    /\ MonthsOnFile = {}
    /\ attendance # EmptyBag
    /\ ret.kind = "profile"
    /\ ret.dias_contratados > 0
    /\ ret.chance_evasao_percent = Finite(10000)

\* C14: whatever happened before, once record_attendance(id, d, True) with
\* d in the current calendar month has run, get_student_full for that
\* student reports dias_presentes one higher and dias_faltas one lower than
\* it reported before the row was recorded, also when a row for that day
\* was already there.
C14_RecordShowsUp ==
    [][\A sid \in ClockValues, d \in AttDates, cpf \in CPFs :
          (/\ RecordAttendance(sid, d, TRUE)
           /\ cpf \in DOMAIN students
           /\ students[cpf].id = sid
           /\ to_period(d) = to_period(Today(clock))) =>
              LET before == GetStudentFull(students, attendance,
                                           Today(clock), solver, cpf)
                  after == GetStudentFull(students', attendance',
                                          Today(clock), solver, cpf)
              IN before.kind = "profile" =>
                    /\ after.kind = "profile"
                    /\ after.dias_presentes = before.dias_presentes + 1
                    /\ after.dias_faltas = before.dias_faltas - 1]_vars

\* C15: delete_student(cpf) returns True exactly when the CPF was stored;
\* then the student and every attendance row of its id are gone, a lookup
\* of the CPF finds nothing, and the other students and their rows are as
\* before; on False nothing has changed.
C15_DeleteStudent ==
    [][\A cpf \in RepoCPFs :
          DeleteStudent(cpf) =>
              /\ ret' = BoolRet(cpf \in DOMAIN students)
              /\ cpf \in DOMAIN students =>
                    /\ DOMAIN students' = DOMAIN students \ {cpf}
                    /\ \A c \in DOMAIN students' : students'[c] = students[c]
                    /\ \A r \in DOMAIN attendance' :
                          r.student_id # students[cpf].id
                    /\ \A r \in DOMAIN attendance :
                          r.student_id # students[cpf].id =>
                             /\ r \in DOMAIN attendance'
                             /\ attendance'[r] = attendance[r]
                    /\ DOMAIN attendance' \subseteq DOMAIN attendance
                    /\ GetStudentFull(students', attendance', Today(clock),
                                      solver, cpf) = NoneRet
              /\ cpf \notin DOMAIN students =>
                    /\ students' = students
                    /\ attendance' = attendance]_vars

\* a student was deleted while another student with attendance stays
C15_Witness ==
    /\ op.name = "delete_student"
    /\ ret = BoolRet(TRUE)
    /\ op.cpf \notin DOMAIN students
    /\ \E c \in DOMAIN students :
          \E r \in DOMAIN attendance : r.student_id = students[c].id

\* C16: every add_student with a CPF not yet stored succeeds, also in the
\* clock second of an earlier one: it returns the profile of the student
\* it inserted, and the stored ids stay pairwise distinct.
C16_UniqueIds ==
    [][\A cpf \in RepoCPFs, mat \in RepoEnrollDates, nasc \in RepoBirthDates,
          dc \in RepoQuotas :
          (AddStudent(cpf, mat, nasc, dc) /\ cpf \notin DOMAIN students) =>
              /\ ret'.kind = "profile"
              /\ ret'.cpf = cpf
              /\ cpf \in DOMAIN students'
              /\ \A a, b \in DOMAIN students' :
                    a # b => students'[a].id # students'[b].id]_vars

\* every attendance row belongs to a stored student
NoOrphanRows ==
    \A r \in DOMAIN attendance : r.student_id \in StudentIds(students)

\* C17: in every reachable state each attendance row references the id of
\* a stored student: a record_attendance either fails and leaves the
\* attendance table as it was, or adds one row for the id of a stored
\* student (so a call with an id no student has fails), and a delete
\* leaves no row behind for a later student to inherit.
C17_ReferentialIntegrity ==
    /\ []NoOrphanRows
    /\ [][(op'.name = "record_attendance" /\ clock' = clock) =>
             \/ /\ ret' = Raise("IntegrityError")
                /\ attendance' = attendance
             \/ /\ ret' = NoneRet
                /\ \E r \in DOMAIN attendance' :
                      /\ r.student_id \in StudentIds(students)
                      /\ attendance' = attendance (+) SetToBag({r})]_vars

\* a record_attendance for an id of no student was refused while another
\* student has rows, the id being one a deleted student held
C17_Witness ==
    /\ op.name = "record_attendance"
    /\ ret = Raise("IntegrityError")
    /\ attendance # EmptyBag
    /\ Cardinality(DOMAIN students) = 1

====
